---------------------------- MODULE Spec2Model ----------------------------
(***************************************************************************)
(* A model of subprocess.hpp: the Popen launcher, its option setters, the  *)
(* Streams descriptor slots, the parent half of execute_process and the    *)
(* child half (Child::execute_child), over an explicit model of the two    *)
(* processes' descriptor tables and of the error pipe between them.        *)
(***************************************************************************)
EXTENDS Integers, Sequences, FiniteSets, TLC

(***************************************************************************)
(* Bounds of the model.                                                    *)
(***************************************************************************)
\* descriptors are 0 .. MaxFd-1: the value of sysconf(_SC_OPEN_MAX)
MaxFd == 8
\* at most this many option arguments follow the command in a constructor call
MaxOpts == 2
\* at most this many calls of execute_process on one launcher
MaxLaunches == 2

(***************************************************************************)
(* Program constants.                                                      *)
(***************************************************************************)
SP_MAX_ERR_BUF_SIZ == 1024
\* read_atmost_n gives up at an interrupted read once eintr_cnter >= 50
EINTR_RETRIES == 50

FdNums == 0 .. (MaxFd - 1)
\* a descriptor number that is open in no process (close, dup2 give EBADF)
BadFd == MaxFd
Unset == -1

Min(S) == CHOOSE x \in S : \A y \in S : x <= y

(***************************************************************************)
(* Open file descriptions and descriptor tables.  A table maps every       *)
(* descriptor number to the open file description it refers to (NoFile     *)
(* when closed) and its FD_CLOEXEC flag.                                   *)
(***************************************************************************)
NoFile == [kind |-> "none", id |-> 0]
Tty(n) == [kind |-> "tty", id |-> n]
PipeRd(id) == [kind |-> "pipe_r", id |-> id]
PipeWr(id) == [kind |-> "pipe_w", id |-> id]
RegFile(id) == [kind |-> "file", id |-> id]

ClosedFd == [file |-> NoFile, cloexec |-> FALSE]

IsOpen(t, fd) == fd \in FdNums /\ t[fd].file # NoFile

OpenFds(t) == {fd \in FdNums : t[fd].file # NoFile}

FreeFds(t) == {fd \in FdNums : t[fd].file = NoFile}

\* the descriptors of table t that refer to open file description f
FdsOf(t, f) == {fd \in FdNums : t[fd].file = f}

\* close(fd): EBADF, and no effect, when fd is not open
sys_close(t, fd) ==
    IF IsOpen(t, fd) THEN [t EXCEPT ![fd] = ClosedFd] ELSE t

\* open(filename, ...): the lowest free descriptor, or -1 (EMFILE)
sys_open(t, id) ==
    IF FreeFds(t) = {}
    THEN [ret |-> -1, fds |-> t]
    ELSE LET fd == Min(FreeFds(t))
         IN  [ret |-> fd,
              fds |-> [t EXCEPT ![fd] = [file |-> RegFile(id), cloexec |-> FALSE]]]

\* dup(fd): the lowest free descriptor, FD_CLOEXEC clear; -1 on EBADF, EMFILE
sys_dup(t, fd) ==
    IF ~IsOpen(t, fd) \/ FreeFds(t) = {}
    THEN [ret |-> -1, fds |-> t]
    ELSE LET n == Min(FreeFds(t))
         IN  [ret |-> n,
              fds |-> [t EXCEPT ![n] = [file |-> t[fd].file, cloexec |-> FALSE]]]

\* dup2(fd, to_fd) for fd # to_fd: -1 when fd is not open
sys_dup2(t, fd, to_fd) ==
    IF ~IsOpen(t, fd) \/ to_fd \notin FdNums
    THEN [ret |-> -1, fds |-> t]
    ELSE [ret |-> to_fd,
          fds |-> [t EXCEPT ![to_fd] = [file |-> t[fd].file, cloexec |-> FALSE]]]

\* util::set_clo_on_exec: fcntl on a closed descriptor fails and is ignored
set_clo_on_exec(t, fd, set) ==
    IF IsOpen(t, fd) THEN [t EXCEPT ![fd].cloexec = set] ELSE t

\* util::pipe_cloexec: pipe() takes the two lowest free descriptors, the read
\* end first; both get FD_CLOEXEC.  ok = FALSE is the OSError("pipe failure").
pipe_cloexec(t, id) ==
    IF Cardinality(FreeFds(t)) < 2
    THEN [ok |-> FALSE, rd |-> -1, wr |-> -1, fds |-> t]
    ELSE LET r == Min(FreeFds(t))
             w == Min(FreeFds(t) \ {r})
             t1 == [t EXCEPT ![r] = [file |-> PipeRd(id), cloexec |-> FALSE],
                             ![w] = [file |-> PipeWr(id), cloexec |-> FALSE]]
         IN  [ok |-> TRUE, rd |-> r, wr |-> w,
              fds |-> set_clo_on_exec(set_clo_on_exec(t1, r, TRUE), w, TRUE)]


(***************************************************************************)
(* Exceptions.  what is the message, a sequence of byte groups.            *)
(***************************************************************************)
NoExc == [type |-> "none", what |-> <<>>]

\* OSError(err_msg, err_code): what() is err_msg + " : " + strerror(err_code),
\* here the two byte groups err_msg + " : " and strerror(err_code)
OSError(err_msg, err_code) ==
    [type |-> "OSError", what |-> <<err_msg, err_code>>]

CalledProcessError(error_msg) ==
    [type |-> "CalledProcessError", what |-> error_msg]

(***************************************************************************)
(* The option arguments of a constructor call, as the caller writes them.  *)
(***************************************************************************)
StreamOpts == {"input", "output", "error"}

\* the numbers a caller passes to input(int), output(int), error(int)
CallerFds == {0, 1, 3, BadFd}

StreamArgs ==
    {[opt |-> o, how |-> h, fd |-> Unset] : o \in StreamOpts, h \in {"pipe", "file"}}
    \cup {[opt |-> o, how |-> "fd", fd |-> n] : o \in StreamOpts, n \in CallerFds}

ScalarArgs ==
    {[opt |-> "defer_spawn", how |-> h, fd |-> Unset] : h \in {"true", "false"}}
    \cup {[opt |-> "close_fds", how |-> h, fd |-> Unset] : h \in {"true"}}
    \cup {[opt |-> "cwd", how |-> h, fd |-> Unset] : h \in {"/tmp", "/nonexistent"}}
    \cup {[opt |-> "executable", how |-> h, fd |-> Unset] : h \in {"nosuch"}}
    \cup {[opt |-> "environment", how |-> h, fd |-> Unset] : h \in {"X=1"}}

Args == StreamArgs \cup ScalarArgs

ArgLists == UNION {[1 .. n -> Args] : n \in 0 .. MaxOpts}

\* the command lines given to the constructor
Commands == {<<"ls">>}

\* what exists in the file system of the model
Executables == {"ls"}
Directories == {"/tmp"}

\* environments are sets of key/value pairs with unique keys
EnvOf(how) == IF how = "X=1" THEN {[k |-> "X", v |-> "1"]} ELSE {}
ParentEnv == {[k |-> "X", v |-> "0"], [k |-> "HOME", v |-> "/root"]}

(***************************************************************************)
(* input, output, error: the constructors of the stream arguments open     *)
(* their descriptors (lines 216-268).  i is the argument's position and    *)
(* names the pipe or file it opens.                                        *)
(***************************************************************************)
Built(a, rd, wr) == [opt |-> a.opt, how |-> a.how, rd_ch_ |-> rd, wr_ch_ |-> wr]

Construct(a, i, t) ==
    IF a.opt \notin StreamOpts
    THEN [exc |-> NoExc, fds |-> t, obj |-> Built(a, Unset, Unset)]
    ELSE IF a.how = "fd"
    THEN [exc |-> NoExc, fds |-> t,
          obj |-> IF a.opt = "input" THEN Built(a, a.fd, Unset)
                                     ELSE Built(a, Unset, a.fd)]
    ELSE IF a.how = "file"
    THEN LET r == sys_open(t, i)
         IN  IF r.ret = -1
             THEN [exc |-> OSError("File not found: ", "EMFILE"), fds |-> t,
                   obj |-> Built(a, Unset, Unset)]
             ELSE [exc |-> NoExc, fds |-> r.fds,
                   obj |-> IF a.opt = "input" THEN Built(a, r.ret, Unset)
                                              ELSE Built(a, Unset, r.ret)]
    ELSE LET r == pipe_cloexec(t, i)
         IN  IF ~r.ok
             THEN [exc |-> OSError("pipe failure", "EMFILE"), fds |-> t,
                   obj |-> Built(a, Unset, Unset)]
             ELSE [exc |-> NoExc, fds |-> r.fds, obj |-> Built(a, r.rd, r.wr)]

\* The arguments are constructed before the constructor body runs, in the
\* order idxs the compiler chose; the first exception ends the call.
RECURSIVE ConstructArgs(_, _, _, _)
ConstructArgs(args, idxs, t, objs) ==
    IF idxs = <<>>
    THEN [exc |-> NoExc, fds |-> t, objs |-> objs]
    ELSE LET i == Head(idxs)
             r == Construct(args[i], i, t)
         IN  IF r.exc # NoExc
             THEN [exc |-> r.exc, fds |-> r.fds, objs |-> objs]
             ELSE ConstructArgs(args, Tail(idxs), r.fds, [objs EXCEPT ![i] = r.obj])

\* argument evaluation order is unspecified: left to right or right to left
EvalOrders(n) == {[i \in 1 .. n |-> i], [i \in 1 .. n |-> n + 1 - i]}

(***************************************************************************)
(* Streams and Popen: the fields and their default member initializers.    *)
(***************************************************************************)
NewStreams ==
    [input_ |-> Unset, output_ |-> Unset, error_ |-> Unset,
     bufsiz_ |-> 0,
     write_to_child_ |-> Unset, read_from_parent_ |-> Unset,
     write_to_parent_ |-> Unset, read_from_child_ |-> Unset,
     err_write_ |-> Unset, err_read_ |-> Unset]

NewPopen(cmd) ==
    [stream_ |-> NewStreams,
     defer_process_start_ |-> FALSE,
     close_fds_ |-> FALSE,
     exe_name_ |-> "",
     cwd_ |-> "",
     env_ |-> {},
     vargs_ |-> cmd,
     child_pid_ |-> -1]

(***************************************************************************)
(* ArgumentDeducer::set_option, one overload per option type.              *)
(***************************************************************************)
set_option_input(p, inp) ==
    LET p1 == [p EXCEPT !.stream_.read_from_parent_ = inp.rd_ch_]
    IN  IF inp.wr_ch_ # -1
        THEN [p1 EXCEPT !.stream_.write_to_child_ = inp.wr_ch_]
        ELSE p1

set_option_output(p, out) ==
    LET p1 == [p EXCEPT !.stream_.write_to_parent_ = out.wr_ch_]
    IN  IF out.rd_ch_ # -1
        THEN [p1 EXCEPT !.stream_.read_from_child_ = out.rd_ch_]
        ELSE p1

set_option_error(p, err) ==
    LET p1 == [p EXCEPT !.stream_.err_write_ = err.wr_ch_]
    IN  IF err.rd_ch_ # -1
        THEN [p1 EXCEPT !.stream_.err_read_ = err.rd_ch_]
        ELSE p1

set_option(p, o) ==
    CASE o.opt = "executable"  -> [p EXCEPT !.exe_name_ = o.how]
      [] o.opt = "cwd"         -> [p EXCEPT !.cwd_ = o.how]
      [] o.opt = "environment" -> [p EXCEPT !.env_ = EnvOf(o.how)]
      [] o.opt = "defer_spawn" -> [p EXCEPT !.defer_process_start_ = (o.how = "true")]
      [] o.opt = "close_fds"   -> [p EXCEPT !.close_fds_ = (o.how = "true")]
      [] o.opt = "input"       -> set_option_input(p, o)
      [] o.opt = "output"      -> set_option_output(p, o)
      [] o.opt = "error"       -> set_option_error(p, o)

\* Popen::init_args: the options are applied in argument order
RECURSIVE init_args(_, _)
init_args(p, objs) ==
    IF objs = <<>> THEN p
    ELSE init_args(set_option(p, Head(objs)), Tail(objs))

(***************************************************************************)
(* Streams::cleanup_fds, close_parent_fds, close_child_fds on a table t.   *)
(* None of them writes a slot.                                             *)
(***************************************************************************)
cleanup_fds(st, t) ==
    LET t1 == IF st.write_to_child_ # -1 /\ st.read_from_parent_ # -1
              THEN sys_close(t, st.write_to_child_) ELSE t
        t2 == IF st.write_to_parent_ # -1 /\ st.read_from_child_ # -1
              THEN sys_close(t1, st.read_from_child_) ELSE t1
    IN  IF st.err_write_ # -1 /\ st.err_read_ # -1
        THEN sys_close(t2, st.err_read_) ELSE t2

close_parent_fds(st, t) ==
    LET t1 == IF st.write_to_child_ # -1 THEN sys_close(t, st.write_to_child_) ELSE t
        t2 == IF st.read_from_child_ # -1 THEN sys_close(t1, st.read_from_child_) ELSE t1
    IN  IF st.err_read_ # -1 THEN sys_close(t2, st.err_read_) ELSE t2

close_child_fds(st, t) ==
    LET t1 == IF st.write_to_parent_ # -1 THEN sys_close(t, st.write_to_parent_) ELSE t
        t2 == IF st.read_from_parent_ # -1 THEN sys_close(t1, st.read_from_parent_) ELSE t1
    IN  IF st.err_write_ # -1 THEN sys_close(t2, st.err_write_) ELSE t2

(***************************************************************************)
(* The descriptor numbers each of these hands to close(), in the order of  *)
(* the calls, and which of the calls find their number not open.           *)
(***************************************************************************)
Given(slots) == SelectSeq(slots, LAMBDA fd : fd # -1)

cleanup_fds_closes(st) ==
    (IF st.write_to_child_ # -1 /\ st.read_from_parent_ # -1
     THEN <<st.write_to_child_>> ELSE <<>>)
    \o (IF st.write_to_parent_ # -1 /\ st.read_from_child_ # -1
        THEN <<st.read_from_child_>> ELSE <<>>)
    \o (IF st.err_write_ # -1 /\ st.err_read_ # -1 THEN <<st.err_read_>> ELSE <<>>)

close_child_fds_closes(st) ==
    Given(<<st.write_to_parent_, st.read_from_parent_, st.err_write_>>)

\* the handles setup_comm_channels replaces, which fclose releases
setup_comm_channels_closes(st) ==
    Given(<<IF st.write_to_child_ # -1 THEN st.input_ ELSE -1,
            IF st.read_from_child_ # -1 THEN st.output_ ELSE -1,
            IF st.err_read_ # -1 THEN st.error_ ELSE -1>>)

\* the table after close(seq[1]), close(seq[2]), ...
Closes(t, seq) ==
    LET F[i \in 0 .. Len(seq)] == IF i = 0 THEN t ELSE sys_close(F[i - 1], seq[i])
    IN  F[Len(seq)]

\* the numbers of seq that close() finds closed already: a number of a slot
\* was open when the slot got it, unless it is the caller's BadFd
Misclosed(t, seq) ==
    {seq[i] : i \in {j \in DOMAIN seq :
                        /\ seq[j] \in FdNums
                        /\ ~IsOpen(Closes(t, SubSeq(seq, 1, j - 1)), seq[j])}}

(***************************************************************************)
(* The state.                                                              *)
(***************************************************************************)
VARIABLES
    fds,        \* the descriptor table of the calling (parent) process
    popen,      \* the Popen object of the caller, stream_ included
    caller,     \* where the caller is: the call it is in, or between calls
    last,       \* how the caller's latest call of the launcher ended
    frame,      \* the activation of execute_process in the parent
    child,      \* the process made by the latest fork
    chan,       \* the bytes in the error pipe of the latest launch
    launches,   \* how many times execute_process was entered
    fds0,       \* the parent's descriptor table before the constructor call
    call_objs,  \* the option objects the constructor call was given
    misclosed   \* the numbers the parent gave to close() when closed already

vars == <<fds, popen, caller, last, frame, child, chan, launches, fds0, call_objs,
          misclosed>>

\* the descriptors the calling process may start with: 3 is a file of the
\* caller's, and stdin, stdout, stderr may have been closed
InitialOpenSets == {{0, 1, 2, 3}, {3}}

InitialTable(S) ==
    [fd \in FdNums |-> IF fd \in S THEN [file |-> Tty(fd), cloexec |-> FALSE]
                                   ELSE ClosedFd]

NoFrame ==
    [pc |-> "none", err_rd_pipe |-> Unset, err_wr_pipe |-> Unset,
     err_buf |-> <<>>, rbytes |-> 0, eintr_cnter |-> 0, interrupted |-> FALSE,
     read_bytes |-> 0, exc |-> NoExc]

NoChild ==
    [pc |-> "none", pid |-> -1, fds |-> InitialTable({}), popen |-> NewPopen(<<>>),
     err_rd_pipe |-> Unset, err_wr_pipe_ |-> Unset, exc |-> NoExc, environ |-> {}, cwd |-> "",
     image |-> "", reaped |-> FALSE, status |-> "none"]

\* exc is what the caller receives, thrown what the throw statement threw;
\* launch is the number of the launch the call ran, 0 when it ran none
NoCall == [call |-> "none", outcome |-> "none", exc |-> NoExc, thrown |-> NoExc,
           launch |-> 0]

Init ==
    /\ fds \in {InitialTable(S) : S \in InitialOpenSets}
    /\ popen = NewPopen(<<>>)
    /\ caller = "start"
    /\ last = NoCall
    /\ frame = NoFrame
    /\ child = NoChild
    /\ chan = <<>>
    /\ launches = 0
    /\ fds0 = fds
    /\ call_objs = <<>>
    /\ misclosed = {}

\* a caller passes a descriptor it has open, or a number that is not open
ValidArgs(args, t) ==
    \A i \in DOMAIN args :
        args[i].how = "fd" => (IsOpen(t, args[i].fd) \/ args[i].fd = BadFd)

(***************************************************************************)
(* Popen::Popen (lines 381-398).  The argument objects are constructed     *)
(* first; an exception there means the constructor body never runs.  Then  *)
(* init_args, and execute_process unless defer_process_start_.             *)
(***************************************************************************)
\* lines 388, 397: if (!defer_process_start_) execute_process();
LaunchesInCtor(p) == ~p.defer_process_start_

PopenCtor(cmd, args, order) ==
    /\ caller = "start"
    /\ ValidArgs(args, fds)
    /\ LET n == Len(args)
           r == ConstructArgs(args, order, fds, [i \in 1 .. n |-> Built(args[i], Unset, Unset)])
           p == init_args(NewPopen(cmd), r.objs)
       IN  /\ fds' = r.fds
           /\ IF r.exc # NoExc
              THEN /\ caller' = "gone"
                   /\ last' = [NoCall EXCEPT !.call = "ctor", !.outcome = "raised",
                                             !.exc = r.exc, !.thrown = r.exc]
                   /\ UNCHANGED <<popen, frame, call_objs>>
              ELSE /\ popen' = p
                   /\ call_objs' = r.objs
                   /\ IF LaunchesInCtor(p)
                      THEN /\ caller' = "ctor"
                           /\ frame' = [NoFrame EXCEPT !.pc = "exec"]
                           /\ UNCHANGED last
                      ELSE /\ caller' = "idle"
                           /\ last' = [NoCall EXCEPT !.call = "ctor", !.outcome = "returned"]
                           /\ UNCHANGED frame
    /\ UNCHANGED <<child, chan, launches, fds0, misclosed>>

Construction ==
    \E cmd \in Commands, args \in ArgLists :
        \E order \in EvalOrders(Len(args)) : PopenCtor(cmd, args, order)

(***************************************************************************)
(* How a call of the launcher ends.                                        *)
(***************************************************************************)
\* the call, which ran launch n, returns to the caller
Returns(n) ==
    /\ caller' = "idle"
    /\ last' = [NoCall EXCEPT !.call = caller, !.outcome = "returned", !.launch = n]
    /\ frame' = NoFrame

\* the exception e leaves the call; a constructor that throws leaves no object
Propagates(e, thrown, n) ==
    /\ caller' = IF caller = "ctor" THEN "gone" ELSE "idle"
    /\ last' = [call |-> caller, outcome |-> "raised", exc |-> e, thrown |-> thrown,
                launch |-> n]
    /\ frame' = NoFrame

\* std::terminate: the calling process is gone
Terminates(e, thrown, n) ==
    /\ caller' = "dead"
    /\ last' = [call |-> caller, outcome |-> "terminated", exc |-> e,
                thrown |-> thrown, launch |-> n]
    /\ frame' = NoFrame

\* execute_process and start_process are declared throw (CalledProcessError,
\* OSError) (lines 400, 419, 458, 473): an exception of another type calls
\* std::unexpected and so std::terminate; a build that does not enforce
\* exception specifications lets it through.
Throws(e, thrown, n, enforced) ==
    IF e.type \in {"CalledProcessError", "OSError"} \/ ~enforced
    THEN Propagates(e, thrown, n)
    ELSE Terminates(e, thrown, n)

(***************************************************************************)
(* Popen::start_process (lines 458-470).                                   *)
(***************************************************************************)
\* a start_process that goes on to execute_process whatever the flag
MayStart_unguarded(p) == TRUE

\* line 465: the call goes on to execute_process only when deferred
MayStart(p) == p.defer_process_start_

\* assert (0) aborts the process; with NDEBUG it is nothing, and line 467 returns
StartProcess(ndebug) ==
    /\ caller = "idle"
    /\ launches < MaxLaunches
    /\ IF ~MayStart(popen)
       THEN /\ IF ndebug
               THEN /\ caller' = "idle"
                    /\ last' = [NoCall EXCEPT !.call = "start_process",
                                              !.outcome = "returned"]
               ELSE /\ caller' = "dead"
                    /\ last' = [NoCall EXCEPT !.call = "start_process",
                                              !.outcome = "terminated"]
            /\ UNCHANGED frame
       ELSE /\ caller' = "start_process"
            /\ frame' = [NoFrame EXCEPT !.pc = "exec"]
            /\ last' = NoCall
    /\ UNCHANGED <<fds, popen, child, chan, launches, fds0, call_objs, misclosed>>

(***************************************************************************)
(* Popen::execute_process, lines 475-488: the error pipe, the executable   *)
(* name, fork.  The error pipe of launch n is the pipe named -n.           *)
(***************************************************************************)
ErrPipe == pipe_cloexec(fds, -(launches + 1))

ResolveExe(p) ==
    IF p.exe_name_ = "" THEN [p EXCEPT !.exe_name_ = p.vargs_[1]] ELSE p

PipeFailure ==
    /\ frame.pc = "exec"
    /\ ~ErrPipe.ok
    /\ launches' = launches + 1
    /\ Propagates(OSError("pipe failure", "EMFILE"),
                  OSError("pipe failure", "EMFILE"), launches + 1)
    /\ UNCHANGED <<fds, popen, child, chan, fds0, call_objs, misclosed>>

\* a fork failure path that closes the read end only
ForkFailureCloses_read_end_only(t, rd, wr) == sys_close(t, rd)

\* after fork failed: both ends of the error pipe are closed
ForkFailureCloses(t, rd, wr) == sys_close(sys_close(t, rd), wr)

ForkFailure ==
    /\ frame.pc = "exec"
    /\ ErrPipe.ok
    /\ launches' = launches + 1
    /\ popen' = [ResolveExe(popen) EXCEPT !.child_pid_ = -1]
    /\ fds' = ForkFailureCloses(ErrPipe.fds, ErrPipe.rd, ErrPipe.wr)
    /\ Propagates(OSError("fork failed", "EAGAIN"),
                  OSError("fork failed", "EAGAIN"), launches + 1)
    /\ UNCHANGED <<child, chan, fds0, call_objs, misclosed>>

\* the child starts as a copy of the parent: its table, the object, the locals
Fork ==
    /\ frame.pc = "exec"
    /\ ErrPipe.ok
    /\ launches' = launches + 1
    /\ LET pid == launches + 1
           p == ResolveExe(popen)
       IN  /\ popen' = [p EXCEPT !.child_pid_ = pid]
           /\ fds' = ErrPipe.fds
           /\ frame' = [frame EXCEPT !.pc = "parent",
                                     !.err_rd_pipe = ErrPipe.rd,
                                     !.err_wr_pipe = ErrPipe.wr]
           /\ child' = [NoChild EXCEPT !.pc = "start",
                                       !.pid = pid,
                                       !.fds = ErrPipe.fds,
                                       !.popen = [p EXCEPT !.child_pid_ = 0],
                                       !.err_rd_pipe = ErrPipe.rd,
                                       !.err_wr_pipe_ = ErrPipe.wr,
                                       !.environ = ParentEnv,
                                       !.cwd = "/"]
           /\ chan' = <<>>
    /\ UNCHANGED <<caller, last, fds0, call_objs, misclosed>>

(***************************************************************************)
(* The error pipe of the launch in progress.                               *)
(***************************************************************************)
ErrRd == PipeRd(-launches)
ErrWr == PipeWr(-launches)

\* the child's bootstrap is still running (it has neither exec'd nor exited)
InBootstrap == child.pc \in {"start", "dup", "sweep", "chdir", "exec", "report", "exit"}

\* some process still has the write end of the error pipe open
WriterExists == FdsOf(fds, ErrWr) # {} \/ FdsOf(child.fds, ErrWr) # {}

(***************************************************************************)
(* execute_process, parent branch, lines 503-506.                          *)
(***************************************************************************)
ParentCloses(st, t, err_wr_pipe) == close_child_fds(st, sys_close(t, err_wr_pipe))

ParentClosePass ==
    /\ frame.pc = "parent"
    /\ fds' = ParentCloses(popen.stream_, fds, frame.err_wr_pipe)
    /\ misclosed' = misclosed \cup
           Misclosed(fds, <<frame.err_wr_pipe>> \o close_child_fds_closes(popen.stream_))
    /\ frame' = [frame EXCEPT !.pc = "read"]
    /\ UNCHANGED <<popen, caller, last, child, chan, launches, fds0, call_objs>>

(***************************************************************************)
(* util::read_atmost_n (lines 121-142), one action per outcome of read(),  *)
(* and lines 510-513 once it returns.                                      *)
(***************************************************************************)
\* read() stores its bytes at buf, over what earlier reads of the loop stored
StoreAt(buf, chunk) == chunk \o SubSeq(buf, Len(chunk) + 1, Len(buf))

\* rbytes after a read() that returned read_bytes > 0
Accumulate(rbytes, read_bytes) == rbytes + read_bytes

\* line 513: if (read_bytes || strlen(err_buf))
ChildReported(read_bytes, err_buf) == read_bytes # 0 \/ Len(err_buf) # 0

\* read_atmost_n returned ret (its locals are gone): close(err_rd_pipe), then
\* the test of line 513
AfterRead(ret) ==
    /\ fds' = sys_close(fds, frame.err_rd_pipe)
    /\ misclosed' = misclosed \cup Misclosed(fds, <<frame.err_rd_pipe>>)
    /\ frame' = [frame EXCEPT !.read_bytes = ret,
                              !.rbytes = 0, !.eintr_cnter = 0, !.interrupted = FALSE,
                              !.pc = IF ChildReported(ret, frame.err_buf)
                                     THEN "wait" ELSE "setup"]

\* read() returns n > 0 bytes: at most read_upto, at most what the pipe holds
ReadData(n) ==
    /\ frame.pc = "read"
    /\ IsOpen(fds, frame.err_rd_pipe)
    /\ fds[frame.err_rd_pipe].file = ErrRd
    /\ n <= SP_MAX_ERR_BUF_SIZ
    /\ n <= Len(chan)
    /\ frame' = [frame EXCEPT !.err_buf = StoreAt(frame.err_buf, SubSeq(chan, 1, n)),
                              !.rbytes = Accumulate(frame.rbytes, n),
                              !.interrupted = FALSE]
    /\ chan' = SubSeq(chan, n + 1, Len(chan))
    /\ UNCHANGED <<fds, popen, caller, last, child, launches, fds0, call_objs, misclosed>>

\* read() returns 0: the pipe is empty and no write end is open anywhere
ReadEof ==
    /\ frame.pc = "read"
    /\ IsOpen(fds, frame.err_rd_pipe)
    /\ fds[frame.err_rd_pipe].file = ErrRd
    /\ chan = <<>>
    /\ ~WriterExists
    /\ AfterRead(frame.rbytes)
    /\ UNCHANGED <<popen, caller, last, child, chan, launches, fds0, call_objs>>

\* read() fails with EBADF: err_rd_pipe is not open
ReadError ==
    /\ frame.pc = "read"
    /\ ~IsOpen(fds, frame.err_rd_pipe)
    /\ AfterRead(-1)
    /\ UNCHANGED <<popen, caller, last, child, chan, launches, fds0, call_objs>>

\* a maximal run of k reads, each blocked and then interrupted by a signal
EintrBursts == {EINTR_RETRIES, EINTR_RETRIES + 1}

\* the loop gives up at an interrupted read that finds eintr_cnter >= 50
GivesUp(eintr_cnter, k) == eintr_cnter + k > EINTR_RETRIES

ReadInterrupted(k) ==
    /\ frame.pc = "read"
    /\ IsOpen(fds, frame.err_rd_pipe)
    /\ fds[frame.err_rd_pipe].file = ErrRd
    /\ chan = <<>>
    /\ WriterExists
    /\ ~frame.interrupted
    /\ IF GivesUp(frame.eintr_cnter, k)
       THEN AfterRead(-1)
       ELSE /\ frame' = [frame EXCEPT !.eintr_cnter = frame.eintr_cnter + k,
                                      !.interrupted = TRUE]
            /\ UNCHANGED <<fds, misclosed>>
    /\ UNCHANGED <<popen, caller, last, child, chan, launches, fds0, call_objs>>

(***************************************************************************)
(* util::wait_for_child_exit (lines 144-157) and lines 517-521.  waitpid   *)
(* with WNOHANG returns 0 while the child runs (the loop spins), the pid   *)
(* once it is a zombie, -1 (ECHILD) when it was reaped already.            *)
(***************************************************************************)
waitpid(c) ==
    IF c.pc # "exited" THEN 0
    ELSE IF c.reaped THEN -1
    ELSE c.pid

\* a wait loop that gives up after one poll, whatever waitpid returned
WaitLoopExits_single_poll(ret) == TRUE

\* line 152: if (ret == 0) continue
WaitLoopExits(ret) == ret # 0

\* the value wait_for_child_exit returns once its loop exits with ret
wait_for_child_exit(pid, ret) == IF ret = -1 THEN ret ELSE pid

WaitChild ==
    /\ frame.pc = "wait"
    /\ LET ret == waitpid(child)
           sys_ret == wait_for_child_exit(popen.child_pid_, ret)
       IN  /\ WaitLoopExits(ret)
           /\ child' = [child EXCEPT !.reaped = child.reaped \/ ret = child.pid]
           /\ frame' = [frame EXCEPT
                          !.pc = "catch",
                          !.exc = IF sys_ret = -1
                                  THEN OSError("child exit", "ECHILD")
                                  ELSE CalledProcessError(frame.err_buf)]
    /\ UNCHANGED <<fds, popen, caller, last, chan, launches, fds0, call_objs, misclosed>>

(***************************************************************************)
(* The handler of lines 523-526: cleanup_fds, then throw exp, where exp is *)
(* a std::exception&: the exception thrown is a std::exception copied from *)
(* the base part of the caught one, whose what() is "std::exception".      *)
(***************************************************************************)
Rethrown(exp) == [type |-> "std::exception", what |-> <<"std::exception">>]

CatchRethrow(enforced) ==
    /\ frame.pc = "catch"
    /\ fds' = cleanup_fds(popen.stream_, fds)
    /\ misclosed' = misclosed \cup Misclosed(fds, cleanup_fds_closes(popen.stream_))
    /\ Throws(Rethrown(frame.exc), frame.exc, launches, enforced)
    /\ UNCHANGED <<popen, child, chan, launches, fds0, call_objs>>

(***************************************************************************)
(* Streams::setup_comm_channels (lines 662-683).  A handle is the          *)
(* descriptor its FILE wraps, Unset for a null pointer; fdopen gives null  *)
(* for a descriptor that is not open; reset releases the handle held       *)
(* before, whose fclose closes its descriptor.                             *)
(***************************************************************************)
fdopen(t, fd) == IF IsOpen(t, fd) THEN fd ELSE Unset

fclose(t, h) == IF h # Unset THEN sys_close(t, h) ELSE t

setup_comm_channels(st, t) ==
    LET in_ == IF st.write_to_child_ # -1 THEN fdopen(t, st.write_to_child_) ELSE st.input_
        t1 == IF st.write_to_child_ # -1 THEN fclose(t, st.input_) ELSE t
        out_ == IF st.read_from_child_ # -1 THEN fdopen(t1, st.read_from_child_) ELSE st.output_
        t2 == IF st.read_from_child_ # -1 THEN fclose(t1, st.output_) ELSE t1
        err_ == IF st.err_read_ # -1 THEN fdopen(t2, st.err_read_) ELSE st.error_
        t3 == IF st.err_read_ # -1 THEN fclose(t2, st.error_) ELSE t2
    IN  [stream_ |-> [st EXCEPT !.input_ = in_, !.output_ = out_, !.error_ = err_],
         fds |-> t3]

SetupAndReturn ==
    /\ frame.pc = "setup"
    /\ LET r == setup_comm_channels(popen.stream_, fds)
       IN  /\ popen' = [popen EXCEPT !.stream_ = r.stream_]
           /\ fds' = r.fds
    /\ misclosed' = misclosed \cup
           Misclosed(fds, setup_comm_channels_closes(popen.stream_))
    /\ Returns(launches)
    /\ UNCHANGED <<child, chan, launches, fds0, call_objs>>

(***************************************************************************)
(* The launcher goes out of scope.  Popen declares no destructor: its      *)
(* members are destroyed, and each shared_ptr<FILE> of stream_ (lines      *)
(* 350-352) runs its deleter, fclose (lines 664-666), on the handle it     *)
(* holds; the descriptor slots are plain ints, nothing closes them.        *)
(***************************************************************************)
Release(st) == [st EXCEPT !.input_ = Unset, !.output_ = Unset, !.error_ = Unset]

Destroy ==
    /\ caller = "idle"
    /\ LET hs == Given(<<popen.stream_.error_, popen.stream_.output_, popen.stream_.input_>>)
       IN  /\ fds' = Closes(fds, hs)
           /\ misclosed' = misclosed \cup Misclosed(fds, hs)
    /\ popen' = [popen EXCEPT !.stream_ = Release(popen.stream_)]
    /\ caller' = "destroyed"
    /\ UNCHANGED <<last, frame, child, chan, launches, fds0, call_objs>>

(***************************************************************************)
(* The child.  Lines 490-498: close_parent_fds, close(err_rd_pipe), and    *)
(* the Child object takes err_wr_pipe.                                     *)
(***************************************************************************)
\* a child that closes only the read end of the error pipe
ChildCloses_error_pipe_only(st, t, err_rd_pipe) == sys_close(t, err_rd_pipe)

ChildCloses(st, t, err_rd_pipe) == sys_close(close_parent_fds(st, t), err_rd_pipe)

ChildStart ==
    /\ child.pc = "start"
    /\ child' = [child EXCEPT
                   !.fds = ChildCloses(child.popen.stream_, child.fds, child.err_rd_pipe),
                   !.pc = "dup"]
    /\ UNCHANGED <<fds, popen, caller, last, frame, chan, launches, fds0, call_objs, misclosed>>

(***************************************************************************)
(* Child::execute_child, lines 580-617.  A step result is the exception    *)
(* thrown so far, the table and the child's copy of the Streams slots.     *)
(***************************************************************************)
\* an exception that leaves the try block uncaught and unwinds out of
\* execute_child, back into the caller's code in the child
AfterThrow_uncaught(exc) == "unwound"

\* lines 648-654: catch (const OSError&) takes what the try block throws,
\* and control goes on to the report and to exit (line 658)
AfterThrow(exc) == IF exc.type = "OSError" THEN "report" ELSE "unwound"

\* lines 580-584: a slot that is 0 (or 1, for stderr) is re-duplicated
Renumber(r, slot, low) ==
    IF r.st[slot] \in low
    THEN LET d == sys_dup(r.fds, r.st[slot])
         IN  [exc |-> r.exc, fds |-> d.fds, st |-> [r.st EXCEPT ![slot] = d.ret]]
    ELSE r

\* the lambda _dup2_ of lines 588-602
dup2_(r, fd, to_fd) ==
    IF r.exc # NoExc THEN r
    ELSE IF fd = to_fd
    THEN [r EXCEPT !.fds = set_clo_on_exec(r.fds, fd, FALSE)]
    ELSE IF fd # -1
    THEN LET d == sys_dup2(r.fds, fd, to_fd)
         IN  IF d.ret = -1
             THEN [r EXCEPT !.exc = OSError("dup2 failed", "EBADF")]
             ELSE [r EXCEPT !.fds = d.fds]
    ELSE r

\* lines 610-617: close a duplicated descriptor unless it is 0, 1 or 2
CloseDuped(r, fd) ==
    IF r.exc # NoExc THEN r
    ELSE IF fd # -1 /\ fd > 2
    THEN [r EXCEPT !.fds = sys_close(r.fds, fd)]
    ELSE r

\* the k-th of the eight steps of lines 580-617, applied to the result r of
\* the steps before it
StreamStep(k, r) ==
    CASE k = 1 -> Renumber(r, "write_to_parent_", {0})
      [] k = 2 -> Renumber(r, "err_write_", {0, 1})
      [] k = 3 -> dup2_(r, r.st.read_from_parent_, 0)
      [] k = 4 -> dup2_(r, r.st.write_to_parent_, 1)
      [] k = 5 -> dup2_(r, r.st.err_write_, 2)
      [] k = 6 -> CloseDuped(r, r.st.read_from_parent_)
      [] k = 7 -> CloseDuped(r, r.st.write_to_parent_)
      [] k = 8 -> CloseDuped(r, r.st.err_write_)

RECURSIVE StreamSteps(_, _)
StreamSteps(k, r0) ==
    IF k = 0 THEN r0
    ELSE CHOOSE r \in {StreamStep(k, done) : done \in {StreamSteps(k - 1, r0)}} : TRUE

StandardStreams(st, t) == StreamSteps(8, [exc |-> NoExc, fds |-> t, st |-> st])

\* where the child goes after its step at pc, skipping the steps not configured
AfterStep(pc, p) ==
    IF pc = "dup" /\ p.close_fds_ THEN "sweep"
    ELSE IF pc \in {"dup", "sweep"} /\ p.cwd_ # "" THEN "chdir"
    ELSE "exec"

ChildDup ==
    /\ child.pc = "dup"
    /\ \E r \in {StandardStreams(child.popen.stream_, child.fds)} :
           child' = [child EXCEPT
                       !.fds = r.fds,
                       !.popen.stream_ = r.st,
                       !.exc = r.exc,
                       !.pc = IF r.exc # NoExc THEN AfterThrow(r.exc)
                              ELSE AfterStep("dup", child.popen)]
    /\ UNCHANGED <<fds, popen, caller, last, frame, chan, launches, fds0, call_objs, misclosed>>

(***************************************************************************)
(* Lines 619-628: close every descriptor from 3 up, but err_wr_pipe_.      *)
(***************************************************************************)
\* a sweep that skips every descriptor and closes none
SweepKeeps_everything(err_wr_pipe_) == FdNums

\* lines 624-627: the loop starts at 3 and skips err_wr_pipe_
SweepKeeps(err_wr_pipe_) == {0, 1, 2, err_wr_pipe_}

CloseAll(t, err_wr_pipe_) ==
    [fd \in FdNums |-> IF fd \in SweepKeeps(err_wr_pipe_) THEN t[fd] ELSE ClosedFd]

ChildSweep ==
    /\ child.pc = "sweep"
    /\ child' = [child EXCEPT !.fds = CloseAll(child.fds, child.err_wr_pipe_),
                              !.pc = AfterStep("sweep", child.popen)]
    /\ UNCHANGED <<fds, popen, caller, last, frame, chan, launches, fds0, call_objs, misclosed>>

(***************************************************************************)
(* Lines 630-634: chdir.                                                   *)
(***************************************************************************)
ChildChdir ==
    /\ child.pc = "chdir"
    /\ IF child.popen.cwd_ \in Directories
       THEN child' = [child EXCEPT !.cwd = child.popen.cwd_, !.pc = "exec"]
       ELSE child' = [child EXCEPT !.exc = OSError("chdir failed", "ENOENT"),
                                   !.pc = AfterThrow(OSError("chdir failed", "ENOENT"))]
    /\ UNCHANGED <<fds, popen, caller, last, frame, chan, launches, fds0, call_objs, misclosed>>

(***************************************************************************)
(* Lines 636-646: setenv for every pair of env_, then execvp.  A           *)
(* successful exec closes the descriptors that have FD_CLOEXEC.            *)
(* populate_c_argv (lines 452-456) ends cargv_ with no null pointer:       *)
(* execvp reads past its last element, and fails with EFAULT unless the    *)
(* word it finds there is null.                                            *)
(***************************************************************************)
populate_c_argv(vargs) == [i \in 1 .. Len(vargs) |-> vargs[i]]

\* errno of execvp(exe_name, cargv), "" when the image is replaced
execvp(exe_name, cargv, null_follows) ==
    IF exe_name \notin Executables THEN "ENOENT"
    ELSE IF ~null_follows THEN "EFAULT"
    ELSE ""

\* setenv(k, v, 1) for every pair of env
SetEnv(environ, env) ==
    {e \in environ : \A kv \in env : kv.k # e.k} \cup env

CloseOnExec(t) ==
    [fd \in FdNums |-> IF t[fd].cloexec THEN ClosedFd ELSE t[fd]]

ChildExec(null_follows) ==
    /\ child.pc = "exec"
    /\ LET environ == IF Cardinality(child.popen.env_) # 0
                      THEN SetEnv(child.environ, child.popen.env_)
                      ELSE child.environ
           errno == execvp(child.popen.exe_name_,
                           populate_c_argv(child.popen.vargs_), null_follows)
       IN  IF errno = ""
           THEN child' = [child EXCEPT !.environ = environ,
                                       !.image = child.popen.exe_name_,
                                       !.fds = CloseOnExec(child.fds),
                                       !.pc = "execd"]
           ELSE child' = [child EXCEPT !.environ = environ,
                                       !.exc = OSError("execve failed", errno),
                                       !.pc = AfterThrow(OSError("execve failed", errno))]
    /\ UNCHANGED <<fds, popen, caller, last, frame, chan, launches, fds0, call_objs, misclosed>>

(***************************************************************************)
(* Lines 648-654: the handler writes what() to err_wr_pipe_ with write_n;  *)
(* its result is not looked at.  The bytes reach the error pipe when       *)
(* err_wr_pipe_ is still its write end.                                    *)
(***************************************************************************)
write_n(t, fd, buf, pipe) ==
    IF IsOpen(t, fd) /\ t[fd].file = ErrWr THEN pipe \o buf ELSE pipe

ChildReport ==
    /\ child.pc = "report"
    /\ chan' = write_n(child.fds, child.err_wr_pipe_, child.exc.what, chan)
    /\ child' = [child EXCEPT !.pc = "exit"]
    /\ UNCHANGED <<fds, popen, caller, last, frame, launches, fds0, call_objs, misclosed>>

(***************************************************************************)
(* Line 658: exit(EXIT_FAILURE).  Every descriptor of the child closes.    *)
(***************************************************************************)
ChildExit ==
    /\ child.pc = "exit"
    /\ child' = [child EXCEPT !.pc = "exited", !.fds = InitialTable({}),
                              !.status = "EXIT_FAILURE"]
    /\ UNCHANGED <<fds, popen, caller, last, frame, chan, launches, fds0, call_objs, misclosed>>

(***************************************************************************)
(* The environment: the program the child became runs to its end; and a    *)
(* zombie may be reaped without the launcher (SIGCHLD ignored, or a        *)
(* handler of the caller's that waits), which the launcher can observe     *)
(* only in its wait loop.                                                  *)
(***************************************************************************)
ProgramExits ==
    /\ child.pc = "execd"
    /\ child' = [child EXCEPT !.pc = "exited", !.fds = InitialTable({}),
                              !.status = "of the program"]
    /\ UNCHANGED <<fds, popen, caller, last, frame, chan, launches, fds0, call_objs, misclosed>>

ReapedElsewhere ==
    /\ frame.pc = "wait"
    /\ child.pc = "exited"
    /\ ~child.reaped
    /\ child' = [child EXCEPT !.reaped = TRUE]
    /\ UNCHANGED <<fds, popen, caller, last, frame, chan, launches, fds0, call_objs, misclosed>>

Next ==
    \/ Construction
    \/ \E ndebug \in BOOLEAN : StartProcess(ndebug)
    \/ PipeFailure
    \/ ForkFailure
    \/ Fork
    \/ ParentClosePass
    \/ \E n \in 1 .. Len(chan) : ReadData(n)
    \/ ReadEof
    \/ ReadError
    \/ \E k \in EintrBursts : ReadInterrupted(k)
    \/ WaitChild
    \/ \E enforced \in BOOLEAN : CatchRethrow(enforced)
    \/ SetupAndReturn
    \/ Destroy
    \/ ChildStart
    \/ ChildDup
    \/ ChildSweep
    \/ ChildChdir
    \/ \E null_follows \in BOOLEAN : ChildExec(null_follows)
    \/ ChildReport
    \/ ChildExit
    \/ ProgramExits
    \/ ReapedElsewhere

Spec == Init /\ [][Next]_vars

\* the program started the usual way, with descriptors 0, 1 and 2 open
StdioTable == InitialTable({0, 1, 2, 3})

InitStdio == Init /\ fds = StdioTable

SpecStdio == InitStdio /\ [][Next]_vars

(***************************************************************************)
(* Scheduling.  The parent's thread is inside execute_process and keeps    *)
(* running: a system call of it that can return does return; the child is  *)
(* a process of its own that the kernel keeps scheduling until it execs or *)
(* exits.  Nothing obliges a signal to arrive (ReadInterrupted), the       *)
(* program the child became to end (ProgramExits), or anyone else to reap  *)
(* it (ReapedElsewhere).                                                   *)
(***************************************************************************)
ParentStep ==
    \/ ParentClosePass
    \/ \E n \in 1 .. Len(chan) : ReadData(n)
    \/ ReadEof
    \/ ReadError
    \/ WaitChild
    \/ \E enforced \in BOOLEAN : CatchRethrow(enforced)
    \/ SetupAndReturn

ChildStep ==
    \/ ChildStart \/ ChildDup \/ ChildSweep \/ ChildChdir
    \/ \E null_follows \in BOOLEAN : ChildExec(null_follows)
    \/ ChildReport \/ ChildExit

SpecFair == SpecStdio /\ WF_vars(ParentStep) /\ WF_vars(ChildStep)

(***************************************************************************)
(* Vocabulary of the properties.                                           *)
(***************************************************************************)
\* the latest launch call has ended, and last tells how
LaunchEnded == frame.pc = "none" /\ launches > 0 /\ last.launch = launches

\* child is the process forked by the latest launch
ChildOfLaunch == child.pid = launches /\ child.pc # "none"

\* the bootstrap of the child threw: at dup2, at chdir or at execvp
ChildFailed == child.exc # NoExc

Handles(st) == {st.input_, st.output_, st.error_} \ {Unset}

\* the descriptors of table t that are an end of some launch's error pipe
ErrPipeFds(t) ==
    {fd \in FdNums : t[fd].file.kind \in {"pipe_r", "pipe_w"} /\ t[fd].file.id < 0}

\* the descriptor a redirect-to-descriptor option object carries
GivenFd(o) == IF o.opt = "input" THEN o.rd_ch_ ELSE o.wr_ch_

\* the open descriptors the caller gave as input(int), output(int), error(int)
CallerGiven ==
    {GivenFd(call_objs[i]) : i \in {j \in DOMAIN call_objs : call_objs[j].how = "fd"}}
    \cap OpenFds(fds0)

(***************************************************************************)
(* C1.  When the child's bootstrap failed (at dup2, chdir or execvp), the  *)
(* launch call ends by raising a CalledProcessError with a non-empty       *)
(* message: it does not return, and a first launch leaves no stream        *)
(* handle.                                                                 *)
(***************************************************************************)
C1_ChildFailureRaisesLaunchError ==
    (LaunchEnded /\ ChildOfLaunch /\ ChildFailed)
        => /\ last.outcome = "raised"
           /\ last.exc.type = "CalledProcessError"
           /\ last.exc.what # <<>>
           /\ (launches = 1 => Handles(popen.stream_) = {})

(***************************************************************************)
(* C2.  Whenever a CalledProcessError has been thrown for a child (line    *)
(* 521), in flight in the handler or after the call ended, that child has  *)
(* exited and has been reaped: no zombie is left.                          *)
(***************************************************************************)
C2_ReapedBeforeRaise ==
    /\ frame.exc.type = "CalledProcessError"
           => (child.pc = "exited" /\ child.reaped)
    /\ (LaunchEnded /\ last.thrown.type = "CalledProcessError")
           => (ChildOfLaunch /\ child.pc = "exited" /\ child.reaped)

C2_Witness ==
    /\ LaunchEnded
    /\ last.outcome = "raised"
    /\ last.thrown.type = "CalledProcessError"
    /\ last.thrown.what # <<>>
    /\ child.reaped

(***************************************************************************)
(* C3.  After a launch call returned or raised, the parent's open          *)
(* descriptors are those open before the constructor call, unchanged,      *)
(* plus, on success only, the parent-owned pipe ends held by the stream    *)
(* handles.                                                                *)
(***************************************************************************)
C3_DescriptorHygiene ==
    (LaunchEnded /\ last.outcome \in {"returned", "raised"})
        => /\ \A fd \in OpenFds(fds0) : fds[fd] = fds0[fd]
           /\ OpenFds(fds) \ OpenFds(fds0) =
                 IF last.outcome = "returned" THEN Handles(popen.stream_) ELSE {}

(***************************************************************************)
(* C4.  A descriptor the caller gave as input(int), output(int) or         *)
(* error(int) stays open in the calling process, referring to what it      *)
(* referred to, for as long as that process lives.                         *)
(***************************************************************************)
C4_CallerFdStaysOpen ==
    caller # "dead" => \A fd \in CallerGiven : fds[fd] = fds0[fd]

(***************************************************************************)
(* C5.  At image replacement the child's environment is the mapping env_   *)
(* when that is non-empty, and the parent's environment when it is empty.  *)
(***************************************************************************)
C5_EnvironmentReplaced ==
    child.pc = "execd"
        => child.environ = IF child.popen.env_ # {} THEN child.popen.env_
                                                    ELSE ParentEnv

(***************************************************************************)
(* C6.  Once a launch call has returned with the process started, no step  *)
(* enters execute_process again: a further start_process is rejected.      *)
(***************************************************************************)
C6_NoSecondLaunch ==
    [][(caller = "idle" /\ last.outcome = "returned" /\ last.launch > 0)
          => frame'.pc = "none"]_vars

(***************************************************************************)
(* C7.  With defer_spawn(true), until start_process is called there is no  *)
(* child, pid() is -1 and no error pipe exists; without it the launch      *)
(* happens in the constructor, exactly once, and start_process launches    *)
(* nothing.                                                                *)
(***************************************************************************)
C7_DeferredStart ==
    /\ (popen.defer_process_start_ /\ caller = "idle" /\ last.call = "ctor")
           => /\ popen.child_pid_ = -1
              /\ launches = 0
              /\ child.pc = "none"
              /\ ErrPipeFds(fds) = {}
    /\ (~popen.defer_process_start_ /\ caller # "start")
           => /\ launches <= 1
              /\ caller # "start_process"
              /\ (frame.pc # "none" => caller = "ctor")
              /\ (caller = "idle" => launches = 1)

C7_Witness ==
    /\ ~popen.defer_process_start_
    /\ last.call = "start_process"
    /\ last.outcome = "returned"
    /\ launches = 1
    /\ child.pid = 1

(***************************************************************************)
(* C8.  When the constructor has applied its options, the configuration    *)
(* is the one the last option of each kind alone produces.                 *)
(***************************************************************************)
\* the options of objs that no later option of the same kind follows
LastOfEachKind(objs) ==
    LET keep == {i \in DOMAIN objs : \A j \in DOMAIN objs : j > i => objs[j].opt # objs[i].opt}
        F[i \in 0 .. Len(objs)] ==
            IF i = 0 THEN <<>>
            ELSE IF i \in keep THEN Append(F[i - 1], objs[i]) ELSE F[i - 1]
    IN  F[Len(objs)]

C8_LastWriteWins ==
    (launches = 0 /\ caller \in {"idle", "ctor"})
        => popen = init_args(NewPopen(popen.vargs_), LastOfEachKind(call_objs))

(***************************************************************************)
(* C9.  A step in which fork fails closes both ends of the error pipe,     *)
(* creates no process and raises an OSError.  As claimed: the launcher's   *)
(* fields are all as before the call.  As amended: they are, but for the   *)
(* executable name, which is the first argument when it was empty, and     *)
(* the process identifier, which is -1.                                    *)
(***************************************************************************)
ForkFails ==
    /\ frame.pc = "exec"
    /\ last'.outcome = "raised"
    /\ last'.thrown = OSError("fork failed", "EAGAIN")

C9_ForkFailureLeavesStateOriginal ==
    [][ForkFails => /\ popen' = popen
                    /\ ErrPipeFds(fds') = ErrPipeFds(fds)
                    /\ child' = child]_vars

C9_ForkFailureLeavesState ==
    [][ForkFails =>
          /\ popen' = [popen EXCEPT
                         !.exe_name_ = IF popen.exe_name_ = "" THEN popen.vargs_[1]
                                       ELSE popen.exe_name_,
                         !.child_pid_ = -1]
          /\ fds' = fds
          /\ child' = child
          /\ last'.exc.type = "OSError"]_vars

C9_Witness ==
    /\ caller = "idle"
    /\ last.call = "start_process"
    /\ last.outcome = "raised"
    /\ last.exc = OSError("fork failed", "EAGAIN")
    /\ popen.exe_name_ = "ls"
    /\ popen.child_pid_ = -1
    /\ popen.stream_.write_to_child_ # Unset
    /\ ErrPipeFds(fds) = {}
    /\ child.pc = "none"

(***************************************************************************)
(* C10.  The parent takes the success path (end-of-data with nothing       *)
(* read) only when the child has replaced its image or has exited: never   *)
(* while the bootstrap is still running.                                   *)
(***************************************************************************)
C10_SuccessOnlyAfterBootstrap ==
    ((frame.pc = "setup" \/ (LaunchEnded /\ last.outcome = "returned")) /\ ChildOfLaunch)
        => ~InBootstrap


(***************************************************************************)
(* C11.  Once the child has installed its standard streams (lines 580-617) *)
(* and until it execs or exits, err_wr_pipe_ still names the write end of  *)
(* the error pipe of its launch, whatever the descriptor numbers are: a    *)
(* failure of chdir or execvp can still be written to the error pipe.      *)
(***************************************************************************)
\* the child is past lines 580-617 without a dup2 failure and has not
\* yet written a report
PastStandardStreams ==
    \/ child.pc \in {"sweep", "chdir", "exec"}
    \/ child.pc = "report" /\ child.exc.what[1] \in {"chdir failed", "execve failed"}

C11_ErrorChannelSurvivesDup ==
    PastStandardStreams
        => /\ IsOpen(child.fds, child.err_wr_pipe_)
           /\ child.fds[child.err_wr_pipe_].file = PipeWr(-child.pid)

(***************************************************************************)
(* C12.  The parent takes the failure path (the wait for the child's exit, *)
(* then the throw) only when it has read a non-empty payload from the      *)
(* error pipe, whatever way the read ended; and it returns success only    *)
(* when no payload is left unread in the pipe.                             *)
(***************************************************************************)
C12_RaisesIffPayload ==
    /\ frame.pc \in {"wait", "catch"} => Len(frame.err_buf) > 0
    /\ (LaunchEnded /\ last.outcome = "returned" /\ ChildOfLaunch) => chan = <<>>

(***************************************************************************)
(* C13.  The parent never hands close() (or fclose) a descriptor number    *)
(* that is not open, and once a launcher that was started is gone every    *)
(* descriptor the library opened in the parent has been closed: each is    *)
(* closed exactly once.                                                    *)
(***************************************************************************)
C13_ClosedExactlyOnce ==
    /\ misclosed = {}
    /\ (caller = "destroyed" /\ launches > 0)
           => \A fd \in OpenFds(fds) : fds[fd] = fds0[fd]


(***************************************************************************)
(* C14.  Once the parent has made its close pass (lines 504-506) and the   *)
(* child its own (lines 492-496), the parent holds no child-owned end of   *)
(* a stream pipe and no write end of the error pipe, and the child holds   *)
(* no parent-owned end of a stream pipe and no read end of the error       *)
(* pipe.                                                                   *)
(***************************************************************************)
\* the pipes made for the options of this kind that are the last of it; a
\* pipe is named by the position of its option
PipesOf(kinds) ==
    {i \in DOMAIN call_objs :
        /\ call_objs[i].opt \in kinds
        /\ call_objs[i].how = "pipe"
        /\ \A j \in DOMAIN call_objs : j > i => call_objs[j].opt # call_objs[i].opt}

BothClosePassesDone ==
    /\ ChildOfLaunch
    /\ frame.pc # "parent"
    /\ child.pc # "start"

C14_ClosePassesSeparateEnds ==
    BothClosePassesDone
        => /\ FdsOf(fds, PipeWr(-child.pid)) = {}
           /\ FdsOf(child.fds, PipeRd(-child.pid)) = {}
           /\ \A i \in PipesOf({"input"}) :
                 FdsOf(fds, PipeRd(i)) = {} /\ FdsOf(child.fds, PipeWr(i)) = {}
           /\ \A i \in PipesOf({"output", "error"}) :
                 FdsOf(fds, PipeWr(i)) = {} /\ FdsOf(child.fds, PipeRd(i)) = {}

C14_Witness ==
    /\ BothClosePassesDone
    /\ child.pc = "dup"
    /\ frame.pc = "read"
    /\ PipesOf({"input"}) # {}
    /\ PipesOf({"output", "error"}) # {}
    /\ \A i \in PipesOf({"input"}) :
          FdsOf(fds, PipeWr(i)) # {} /\ FdsOf(child.fds, PipeRd(i)) # {}
    /\ \A i \in PipesOf({"output", "error"}) :
          FdsOf(fds, PipeRd(i)) # {} /\ FdsOf(child.fds, PipeWr(i)) # {}


(***************************************************************************)
(* C15.  When the child of a first launch has replaced its image, its      *)
(* descriptors 0, 1 and 2 are the endpoints configured for stdin, stdout   *)
(* and stderr (what the caller had there, for a role left to inherit when  *)
(* the caller had the descriptor open), open across the exec, and the      *)
(* source descriptors above 2 are closed.                                  *)
(***************************************************************************)
\* the position of the last option of this kind, 0 when there is none
LastOf(kind) ==
    LET is == {i \in DOMAIN call_objs : call_objs[i].opt = kind}
    IN  IF is = {} THEN 0 ELSE CHOOSE i \in is : \A j \in is : j <= i

\* the file configured for the role of this kind, whose descriptor is target
Configured(kind, target) ==
    LET i == LastOf(kind)
    IN  IF i = 0 THEN fds0[target].file
        ELSE IF call_objs[i].how = "fd" THEN fds0[GivenFd(call_objs[i])].file
        ELSE IF call_objs[i].how = "file" THEN RegFile(i)
        ELSE IF kind = "input" THEN PipeRd(i)
        ELSE PipeWr(i)

\* the descriptor the child duplicates for the role, Unset for inherit
SourceFd(kind) ==
    IF LastOf(kind) = 0 THEN Unset ELSE GivenFd(call_objs[LastOf(kind)])

StdRoles == {<<"input", 0>>, <<"output", 1>>, <<"error", 2>>}

FirstChildExecd == child.pc = "execd" /\ child.pid = 1

C15_StandardStreamsInstalled ==
    FirstChildExecd
        => \A r \in StdRoles :
              /\ (LastOf(r[1]) # 0 \/ IsOpen(fds0, r[2]))
                     => child.fds[r[2]].file = Configured(r[1], r[2])
              /\ SourceFd(r[1]) > 2 => ~IsOpen(child.fds, SourceFd(r[1]))


(***************************************************************************)
(* C16.  The child never leaves execute_child into the caller's code: it   *)
(* is always at a step of the bootstrap, in the new image, or gone; a step *)
(* of the bootstrap touches nothing of the parent (its table, its          *)
(* launcher, its call) and ends the bootstrap only by the exec or by the   *)
(* exit with EXIT_FAILURE.                                                 *)
(***************************************************************************)
ChildInProtocol ==
    /\ child.pc \in {"none", "start", "dup", "sweep", "chdir", "exec", "report",
                     "exit", "execd", "exited"}
    /\ (child.pc = "exited" /\ child.image = "") => child.status = "EXIT_FAILURE"

BootstrapStep == InBootstrap /\ child' # child /\ child'.pid = child.pid

C16_ChildNeverReturns ==
    [][/\ ChildInProtocol'
       /\ BootstrapStep
            => /\ UNCHANGED <<fds, popen, caller, last, frame, launches, misclosed>>
               /\ child'.pc \in {"dup", "sweep", "chdir", "exec", "report", "exit",
                                 "execd", "exited"}
               /\ child'.pc = "execd" => (child.pc = "exec" /\ child'.image # "")
               /\ child'.pc = "exited" => child.pc = "exit"]_vars

C16_Witness == child.pc = "exited" /\ child.status = "EXIT_FAILURE" /\ caller = "ctor"


(***************************************************************************)
(* C17.  Under fair scheduling of the parent and of the child, once the    *)
(* child of the launch in progress has replaced its image or has           *)
(* terminated, the launch call comes to its end (it returns or raises).    *)
(***************************************************************************)
ChildSettled == frame.pc # "none" /\ ChildOfLaunch /\ child.pc \in {"execd", "exited"}

C17_LaunchCallEnds == ChildSettled ~> LaunchEnded

(***************************************************************************)
(* C18.  When the launch raises CalledProcessError (line 521) after the    *)
(* whole payload of the failed child was read from the error pipe, in      *)
(* however many reads, the message of the error is the byte sequence the   *)
(* child wrote.                                                            *)
(***************************************************************************)
\* line 521 is reached, the pipe is drained, and read_atmost_n counted bytes
RaisedFromPayload ==
    /\ frame.pc = "catch"
    /\ frame.exc.type = "CalledProcessError"
    /\ ChildOfLaunch
    /\ ChildFailed
    /\ frame.read_bytes > 0
    /\ chan = <<>>

C18_MessageIsPayload == RaisedFromPayload => frame.exc.what = child.exc.what

(***************************************************************************)
(* C19.  With close_fds_ set, from the end of the sweep to the image       *)
(* replacement the child's open descriptors are among 0, 1, 2 and          *)
(* err_wr_pipe_ (among 0, 1, 2 once exec has closed the close-on-exec      *)
(* ones); the sweep leaves err_wr_pipe_ as it found it, and it changes     *)
(* nothing in the parent, whose descriptor table stays as it was.          *)
(***************************************************************************)
\* the child was told to sweep and its sweep is done
Swept == child.popen.close_fds_ /\ child.pc \in {"chdir", "exec", "execd"}

SweptDescriptors ==
    Swept => OpenFds(child.fds) \subseteq
                 (IF child.pc = "execd" THEN {0, 1, 2}
                  ELSE {0, 1, 2, child.err_wr_pipe_})

SweepStep == child.pc = "sweep" /\ child'.pid = child.pid /\ child'.pc # "sweep"

C19_SweepClosesAllButErrorPipe ==
    [][/\ SweptDescriptors'
       /\ SweepStep
            => /\ child.popen.close_fds_
               /\ UNCHANGED <<fds, popen, frame, misclosed>>
               /\ child.err_wr_pipe_ \in FdNums
                      => child'.fds[child.err_wr_pipe_] = child.fds[child.err_wr_pipe_]]_vars

C19_Witness ==
    /\ child.pc = "exec"
    /\ child.popen.close_fds_
    /\ child.err_wr_pipe_ > 2
    /\ IsOpen(child.fds, child.err_wr_pipe_)
    /\ child.fds[child.err_wr_pipe_].file = PipeWr(-child.pid)
    /\ OpenFds(child.fds) = {0, 1, 2, child.err_wr_pipe_}
    /\ IsOpen(fds, 3)
    /\ frame.pc = "read"

(***************************************************************************)
(* C20.  Each of the six descriptor slots of the parent's launcher holds   *)
(* -1 or the number of a descriptor that is open in the parent.  (A number *)
(* outside the descriptor range, which only the caller can have passed,    *)
(* is left aside.)                                                         *)
(***************************************************************************)
\* lines 360-369
Slots == {"write_to_child_", "read_from_parent_", "write_to_parent_",
          "read_from_child_", "err_write_", "err_read_"}

C20_SlotsUnsetOrOpen ==
    \A slot \in Slots :
        popen.stream_[slot] \in FdNums => IsOpen(fds, popen.stream_[slot])

=============================================================================
